---- MODULE Spec2Model ----
(***************************************************************************)
(* Model of woog-life/scraper, src/main.py: one run of the script.         *)
(*                                                                         *)
(* The script reads its configuration from the environment, fetches the    *)
(* sensor document, extracts the water and the air reading, PUTs the water *)
(* reading to the backend and, when main() reports a failure, sends a      *)
(* Telegram message to every entry of TELEGRAM_CHATLIST and exits with 1.  *)
(*                                                                         *)
(* Representation                                                          *)
(*   - Python None is None; an Optional value v is None or Some(v).        *)
(*   - Element text and environment strings are sequences of one-character *)
(*     strings, so that float(), int() and str.split() are computed from   *)
(*     the characters. The characters are those up to 0xFF, none of which  *)
(*     is a decimal digit other than 0 to 9.                               *)
(*   - A finite float is the double nearest to m * 10^(-e), kept as        *)
(*     [m |-> m, e |-> e]; infinities and nan are records of their own.    *)
(*   - Integers are 32 bits wide in the checker, so a millisecond count is *)
(*     handled as its decimal digits.                                      *)
(*   - The parsed document (the soup) is the record of what find() returns *)
(*     for Water_Temperature and Air_Temperature and, inside each, for     *)
(*     value and ts.                                                       *)
(*   - datetime.fromtimestamp() is computed for a process whose local time *)
(*     zone is UTC.                                                        *)
(*   - The sensor endpoint answers the GET with a document or the request  *)
(*     fails at network level; the backend answers the PUT with a status   *)
(*     or the request fails at connection level; requests.put sends a nan  *)
(*     temperature or refuses to encode it (allow_nan=False, from release  *)
(*     2.26 on); Bot.send_message delivers the message or raises a         *)
(*     TelegramError (network failure, rejected token, unknown chat).      *)
(***************************************************************************)
EXTENDS Integers, Sequences, FiniteSets, TLC

VARIABLES
    env,                \* os.environ as read by the script
    pc,                 \* position of the run in the script
    soup,               \* the parsed sensor document (None before the fetch)
    water_information,  \* result of get_water_information
    air_information,    \* result of get_air_information
    forwarded,          \* arguments of the send_data_to_backend call (None if not called)
    forward_result,     \* what send_data_to_backend returned (None before it returns)
    puts,               \* PUT requests issued to the backend, each with its outcome
    main_result,        \* (success, message) returned by main (None before it returns)
    alert,              \* the send_telegram_alert call: None, or its arguments and loop position
    sent,               \* Bot.send_message calls made, each with its outcome
    log,                \* log lines written to stdout
    traceback,          \* the exception that left the script uncaught (None if none did)
    exit_code           \* the process exit code (None while running)

vars == <<env, pc, soup, water_information, air_information, forwarded,
          forward_result, puts, main_result, alert, sent, log, traceback, exit_code>>

----------------------------------------------------------------------------
(* Bounds *)

\* Largest number of comma-separated entries in TELEGRAM_CHATLIST.
MaxRecipients == 2

----------------------------------------------------------------------------
(* Python values *)

None == [none |-> TRUE]
Some(v) == [some |-> v]
IsNone(x) == x = None

\* Truthiness of an Optional[str]: None and "" are falsy.
TruthyStr(x) == ~IsNone(x) /\ x.some # ""

\* The same for a string kept as its characters.
TruthyChars(x) == ~IsNone(x) /\ x.some # <<>>

\* Truthiness of an Optional[Tuple]: None is falsy, a two-element tuple is
\* truthy whatever its elements are.
TruthyTuple(x) == ~IsNone(x) /\ Len(x.some) > 0

Digits == {"0", "1", "2", "3", "4", "5", "6", "7", "8", "9"}

DigitVal(c) ==
    CASE c = "0" -> 0 [] c = "1" -> 1 [] c = "2" -> 2 [] c = "3" -> 3
      [] c = "4" -> 4 [] c = "5" -> 5 [] c = "6" -> 6 [] c = "7" -> 7
      [] c = "8" -> 8 [] c = "9" -> 9

AllDigits(t) == \A i \in 1..Len(t) : t[i] \in Digits

RECURSIVE NatOf(_)
NatOf(t) == IF t = <<>> THEN 0
            ELSE 10 * NatOf(SubSeq(t, 1, Len(t) - 1)) + DigitVal(t[Len(t)])

\* The whitespace int() and float() strip from both ends of the text: the
\* space, \t, \n, \r, \f, the vertical tab (0x0B), and of the characters
\* beyond ASCII that a string can hold here, the next line (0x85) and the
\* no-break space (0xA0). The separators 0x1C to 0x1F are not stripped.
Whitespace == {" ", "\t", "\n", "\r", "\f", "", "", " "}

\* The positions of the first and of the last character of t outside S
\* (Len(t) + 1 and 0 when there is none).
FirstNotIn(t, S) ==
    IF \A i \in 1..Len(t) : t[i] \in S THEN Len(t) + 1
    ELSE CHOOSE i \in 1..Len(t) : t[i] \notin S /\ \A j \in 1..(i - 1) : t[j] \in S
LastNotIn(t, S) ==
    IF \A i \in 1..Len(t) : t[i] \in S THEN 0
    ELSE CHOOSE i \in 1..Len(t) : t[i] \notin S /\ \A j \in (i + 1)..Len(t) : t[j] \in S

LStrip(t) == SubSeq(t, FirstNotIn(t, Whitespace), Len(t))
RStrip(t) == SubSeq(t, 1, LastNotIn(t, Whitespace))
Strip(t) == RStrip(LStrip(t))

\* int() and float() allow "_" between two digits and nowhere else.
UnderscoresOk(t) ==
    \A i \in 1..Len(t) :
        t[i] = "_" => i > 1 /\ i < Len(t) /\ t[i - 1] \in Digits /\ t[i + 1] \in Digits
NotUnderscore(c) == c # "_"
DropUnderscores(t) == SelectSeq(t, NotUnderscore)

HasSign(t) == t # <<>> /\ t[1] \in {"-", "+"}
Unsigned(t) == IF HasSign(t) THEN Tail(t) ELSE t
SignOf(t) == IF t # <<>> /\ t[1] = "-" THEN -1 ELSE 1

StripZeros(d) == SubSeq(d, FirstNotIn(d, {"0"}), Len(d))

\* The digits of int(text), sign and underscores removed.
IntDigits(t) == DropUnderscores(Unsigned(Strip(t)))

\* sys.get_int_max_str_digits(): int() refuses a text of more digits.
MaxStrDigits == 4300

\* int(text) succeeds on whitespace, an optional sign, one or more digits
\* (single underscores between them allowed), whitespace, with no more than
\* MaxStrDigits digits, leading zeros counted; it raises ValueError on any
\* other text.
IntOk(t) ==
    /\ UnderscoresOk(Strip(t))
    /\ IntDigits(t) # <<>>
    /\ AllDigits(IntDigits(t))
    /\ Len(IntDigits(t)) <= MaxStrDigits
IntNegative(t) == SignOf(Strip(t)) = -1
\* |int(text)| as its decimal digits without leading zeros (<< >> for 0).
IntMagnitude(t) == StripZeros(IntDigits(t))

\* a <= b for two naturals given as decimal digits without leading zeros.
DigitsLeq(a, b) ==
    \/ Len(a) < Len(b)
    \/ /\ Len(a) = Len(b)
       /\ \/ a = b
          \/ \E i \in 1..Len(a) :
                /\ \A j \in 1..(i - 1) : a[j] = b[j]
                /\ DigitVal(a[i]) < DigitVal(b[i])

\* The quotient and remainder of a natural, given as decimal digits, by d:
\* long division, so that only the quotient has to fit the integer width.
RECURSIVE DivMod(_, _)
DivMod(digits, d) ==
    IF digits = <<>> THEN [q |-> 0, r |-> 0]
    ELSE LET p   == DivMod(SubSeq(digits, 1, Len(digits) - 1), d)
             cur == p.r * 10 + DigitVal(digits[Len(digits)])
         IN [q |-> p.q * 10 + cur \div d, r |-> cur % d]

\* Millisecond counts (as |int(text)|) up to which
\* datetime.fromtimestamp(int(text) / 1000) returns, raises ValueError (year
\* out of range) and raises OSError (localtime fails); beyond the last it
\* raises OverflowError (out of range for time_t).
MaxTs == <<"2", "5", "3", "4", "0", "2", "3", "0", "0", "7", "9", "9", "9", "9", "9">>
MinTs == <<"6", "2", "1", "3", "5", "5", "1", "0", "4", "0", "0", "0", "0", "0">>
MaxTsValueError == <<"6", "7", "7", "6", "8", "0", "3", "6", "1", "9", "1", "6", "7", "6", "7", "9", "5", "9", "9", "9">>
MinTsValueError == <<"6", "7", "7", "6", "8", "0", "4", "0", "6", "0", "9", "7", "4", "0", "8", "0", "4", "0", "0", "0">>
MaxTsOSError == <<"9", "2", "2", "3", "3", "7", "2", "0", "3", "6", "8", "5", "4", "7", "7", "5", "2", "9", "5", "9", "9", "9">>
MinTsOSError == <<"9", "2", "2", "3", "3", "7", "2", "0", "3", "6", "8", "5", "4", "7", "7", "6", "8", "3", "2", "0", "0", "0">>

\* What the timestamp lambda does on a text: "ok" or the exception raised.
TsOutcome(t) ==
    IF ~IntOk(t) THEN "ValueError"
    ELSE LET mag == IntMagnitude(t)
             neg == IntNegative(t)
         IN IF DigitsLeq(mag, IF neg THEN MinTs ELSE MaxTs) THEN "ok"
            ELSE IF DigitsLeq(mag, IF neg THEN MinTsValueError ELSE MaxTsValueError)
            THEN "ValueError"
            ELSE IF DigitsLeq(mag, IF neg THEN MinTsOSError ELSE MaxTsOSError)
            THEN "OSError"
            ELSE "OverflowError"

RECURSIVE Pow2(_)
Pow2(n) == IF n = 0 THEN 1 ELSE 2 * Pow2(n - 1)

\* n / d rounded to the nearest integer, halves to the even one (n >= 0).
RoundHalfEven(n, d) ==
    LET q == n \div d
        r == n % d
    IN IF 2 * r < d THEN q
       ELSE IF 2 * r > d THEN q + 1
       ELSE IF q % 2 = 0 THEN q ELSE q + 1

\* The exponent e with 2^e <= seconds < 2^(e+1) for a count of
\* days * 86400 + sod seconds of 2^33 or more; 0 stands for any count below
\* 2^33, where a double holds every millisecond to within half a microsecond.
Binade(days, sod) ==
    LET AtLeast(d, s) == days > d \/ (days = d /\ sod >= s)
    IN IF AtLeast(1590728, 54272) THEN 37
       ELSE IF AtLeast(795364, 27136) THEN 36
       ELSE IF AtLeast(397682, 13568) THEN 35
       ELSE IF AtLeast(198841, 6784) THEN 34
       ELSE IF AtLeast(99420, 46592) THEN 33
       ELSE 0

\* The microseconds datetime.fromtimestamp finds in the double nearest to
\* seconds + millis / 1000, for seconds in the binade e: the double keeps
\* 52 - e fractional bits, and the fraction times 1e6 is rounded half-even.
MicrosOf(millis, e) ==
    IF e = 0 THEN millis * 1000
    ELSE LET k   == 52 - e
             q   == RoundHalfEven(millis * Pow2(k), 1000)
             hi  == q \div Pow2(k - 6)
             lo  == q % Pow2(k - 6)
         IN hi * 15625 + RoundHalfEven(lo * 15625, Pow2(k - 6))

\* int(text) / 1000 as the local time datetime.fromtimestamp makes of it:
\* days since 1970-01-01 (floored), second of the day, microsecond.
TimeOf(t) ==
    LET dm     == DivMod(IntMagnitude(t), 86400000)
        sod    == dm.r \div 1000
        micros == MicrosOf(dm.r % 1000, Binade(dm.q, sod))
    IN IF ~IntNegative(t) THEN [days |-> dm.q, sod |-> sod, micros |-> micros]
       ELSE IF sod = 0 /\ micros = 0 THEN [days |-> -dm.q, sod |-> 0, micros |-> 0]
       ELSE IF micros = 0 THEN [days |-> -dm.q - 1, sod |-> 86400 - sod, micros |-> 0]
       ELSE [days |-> -dm.q - 1, sod |-> 86400 - sod - 1, micros |-> 1000000 - micros]

DotAt(t) == IF \E i \in 1..Len(t) : t[i] = "."
            THEN CHOOSE i \in 1..Len(t) : t[i] = "." /\ \A j \in 1..(i - 1) : t[j] # "."
            ELSE 0
IntPart(t) == IF DotAt(t) = 0 THEN t ELSE SubSeq(t, 1, DotAt(t) - 1)
FracPart(t) == IF DotAt(t) = 0 THEN <<>> ELSE SubSeq(t, DotAt(t) + 1, Len(t))

ExpAt(t) == IF \E i \in 1..Len(t) : t[i] \in {"e", "E"}
            THEN CHOOSE i \in 1..Len(t) :
                    t[i] \in {"e", "E"} /\ \A j \in 1..(i - 1) : t[j] \notin {"e", "E"}
            ELSE 0
\* The number before the exponent and the exponent of a float text.
Mantissa(t) == IF ExpAt(t) = 0 THEN t ELSE SubSeq(t, 1, ExpAt(t) - 1)
Exponent(t) == IF ExpAt(t) = 0 THEN <<"0">> ELSE SubSeq(t, ExpAt(t) + 1, Len(t))

Lower(c) == CASE c = "I" -> "i" [] c = "N" -> "n" [] c = "F" -> "f" [] c = "T" -> "t"
              [] c = "Y" -> "y" [] c = "A" -> "a" [] OTHER -> c
LowerAll(t) == [i \in 1..Len(t) |-> Lower(t[i])]

\* The text of float(text) between the whitespace, without its underscores
\* and its sign.
FloatBody(t) == Unsigned(DropUnderscores(Strip(t)))

IsInfText(u) == LowerAll(u) \in { <<"i", "n", "f">>,
                                  <<"i", "n", "f", "i", "n", "i", "t", "y">> }
IsNanText(u) == LowerAll(u) = <<"n", "a", "n">>

\* MAX_DIGITS of the float parser (Python/dtoa.c): the most digits a text may
\* have from its first nonzero digit on, and the most after the point.
MaxDigits == 1000000000

\* float(text) succeeds on whitespace, an optional sign, then inf, infinity
\* or nan in any case, or digits with at most one "." (at least one digit,
\* at most MaxDigits from the first nonzero one on and at most MaxDigits
\* after the point) and an optional exponent of e or E, an optional sign and
\* digits; single underscores between digits allowed. It raises ValueError
\* on any other text.
FloatOk(t) ==
    LET u == FloatBody(t)
        m == Mantissa(u)
        x == Exponent(u)
    IN /\ UnderscoresOk(Strip(t))
       /\ \/ IsInfText(u)
          \/ IsNanText(u)
          \/ /\ AllDigits(IntPart(m))
             /\ AllDigits(FracPart(m))
             /\ Len(IntPart(m)) + Len(FracPart(m)) > 0
             /\ Len(StripZeros(IntPart(m) \o FracPart(m))) <= MaxDigits
             /\ Len(FracPart(m)) <= MaxDigits
             /\ Unsigned(x) # <<>>
             /\ AllDigits(Unsigned(x))

RStripZeros(d) == SubSeq(d, 1, LastNotIn(d, {"0"}))

\* 0.a <= 0.b for two decimal fractions given by their digits.
FracLeq(a, b) ==
    LET A(i) == IF i <= Len(a) THEN DigitVal(a[i]) ELSE 0
        B(i) == IF i <= Len(b) THEN DigitVal(b[i]) ELSE 0
        n    == IF Len(a) > Len(b) THEN Len(a) ELSE Len(b)
    IN \/ \A i \in 1..n : A(i) = B(i)
       \/ \E i \in 1..n : (\A j \in 1..(i - 1) : A(j) = B(j)) /\ A(i) < B(i)

\* The digits of 2^1024 - 2^970 = 0.1797... * 10^309, halfway between the
\* largest double and 2^1024: from there on float() gives inf.
InfFrom ==
    <<"1", "7", "9", "7", "6", "9", "3", "1", "3", "4", "8", "6", "2", "3", "1",
    "5", "8", "0", "7", "9", "3", "7", "2", "8", "9", "7", "1", "4", "0", "5",
    "3", "0", "3", "4", "1", "5", "0", "7", "9", "9", "3", "4", "1", "3", "2",
    "7", "1", "0", "0", "3", "7", "8", "2", "6", "9", "3", "6", "1", "7", "3",
    "7", "7", "8", "9", "8", "0", "4", "4", "4", "9", "6", "8", "2", "9", "2",
    "7", "6", "4", "7", "5", "0", "9", "4", "6", "6", "4", "9", "0", "1", "7",
    "9", "7", "7", "5", "8", "7", "2", "0", "7", "0", "9", "6", "3", "3", "0",
    "2", "8", "6", "4", "1", "6", "6", "9", "2", "8", "8", "7", "9", "1", "0",
    "9", "4", "6", "5", "5", "5", "5", "4", "7", "8", "5", "1", "9", "4", "0",
    "4", "0", "2", "6", "3", "0", "6", "5", "7", "4", "8", "8", "6", "7", "1",
    "5", "0", "5", "8", "2", "0", "6", "8", "1", "9", "0", "8", "9", "0", "2",
    "0", "0", "0", "7", "0", "8", "3", "8", "3", "6", "7", "6", "2", "7", "3",
    "8", "5", "4", "8", "4", "5", "8", "1", "7", "7", "1", "1", "5", "3", "1",
    "7", "6", "4", "4", "7", "5", "7", "3", "0", "2", "7", "0", "0", "6", "9",
    "8", "5", "5", "5", "7", "1", "3", "6", "6", "9", "5", "9", "6", "2", "2",
    "8", "4", "2", "9", "1", "4", "8", "1", "9", "8", "6", "0", "8", "3", "4",
    "9", "3", "6", "4", "7", "5", "2", "9", "2", "7", "1", "9", "0", "7", "4",
    "1", "6", "8", "4", "4", "4", "3", "6", "5", "5", "1", "0", "7", "0", "4",
    "3", "4", "2", "7", "1", "1", "5", "5", "9", "6", "9", "9", "5", "0", "8",
    "0", "9", "3", "0", "4", "2", "8", "8", "0", "1", "7", "7", "9", "0", "4",
    "1", "7", "4", "4", "9", "7", "7", "9", "2">>

\* The digits of 2^-1075 = 0.2470... * 10^-323, half of the smallest double:
\* up to there float() gives zero.
ZeroUpTo ==
    <<"2", "4", "7", "0", "3", "2", "8", "2", "2", "9", "2", "0", "6", "2", "3",
    "2", "7", "2", "0", "8", "8", "2", "8", "4", "3", "9", "6", "4", "3", "4",
    "1", "1", "0", "6", "8", "6", "1", "8", "2", "5", "2", "9", "9", "0", "1",
    "3", "0", "7", "1", "6", "2", "3", "8", "2", "2", "1", "2", "7", "9", "2",
    "8", "4", "1", "2", "5", "0", "3", "3", "7", "7", "5", "3", "6", "3", "5",
    "1", "0", "4", "3", "7", "5", "9", "3", "2", "6", "4", "9", "9", "1", "8",
    "1", "8", "0", "8", "1", "7", "9", "9", "6", "1", "8", "9", "8", "9", "8",
    "2", "8", "2", "3", "4", "7", "7", "2", "2", "8", "5", "8", "8", "6", "5",
    "4", "6", "3", "3", "2", "8", "3", "5", "5", "1", "7", "7", "9", "6", "9",
    "8", "9", "8", "1", "9", "9", "3", "8", "7", "3", "9", "8", "0", "0", "5",
    "3", "9", "0", "9", "3", "9", "0", "6", "3", "1", "5", "0", "3", "5", "6",
    "5", "9", "5", "1", "5", "5", "7", "0", "2", "2", "6", "3", "9", "2", "2",
    "9", "0", "8", "5", "8", "3", "9", "2", "4", "4", "9", "1", "0", "5", "1",
    "8", "4", "4", "3", "5", "9", "3", "1", "8", "0", "2", "8", "4", "9", "9",
    "3", "6", "5", "3", "6", "1", "5", "2", "5", "0", "0", "3", "1", "9", "3",
    "7", "0", "4", "5", "7", "6", "7", "8", "2", "4", "9", "2", "1", "9", "3",
    "6", "5", "6", "2", "3", "6", "6", "9", "8", "6", "3", "6", "5", "8", "4",
    "8", "0", "7", "5", "7", "0", "0", "1", "5", "8", "5", "7", "6", "9", "2",
    "6", "9", "9", "0", "3", "7", "0", "6", "3", "1", "1", "9", "2", "8", "2",
    "7", "9", "5", "5", "8", "5", "5", "1", "3", "3", "2", "9", "2", "7", "8",
    "3", "4", "3", "3", "8", "4", "0", "9", "3", "5", "1", "9", "7", "8", "0",
    "1", "5", "5", "3", "1", "2", "4", "6", "5", "9", "7", "2", "6", "3", "5",
    "7", "9", "5", "7", "4", "6", "2", "2", "7", "6", "6", "4", "6", "5", "2",
    "7", "2", "8", "2", "7", "2", "2", "0", "0", "5", "6", "3", "7", "4", "0",
    "0", "6", "4", "8", "5", "4", "9", "9", "9", "7", "7", "0", "9", "6", "5",
    "9", "9", "4", "7", "0", "4", "5", "4", "0", "2", "0", "8", "2", "8", "1",
    "6", "6", "2", "2", "6", "2", "3", "7", "8", "5", "7", "3", "9", "3", "4",
    "5", "0", "7", "3", "6", "3", "3", "9", "0", "0", "7", "9", "6", "7", "7",
    "6", "1", "9", "3", "0", "5", "7", "7", "5", "0", "6", "7", "4", "0", "1",
    "7", "6", "3", "2", "4", "6", "7", "3", "6", "0", "0", "9", "6", "8", "9",
    "5", "1", "3", "4", "0", "5", "3", "5", "5", "3", "7", "4", "5", "8", "5",
    "1", "6", "6", "6", "1", "1", "3", "4", "2", "2", "3", "7", "6", "6", "6",
    "7", "8", "6", "0", "4", "1", "6", "2", "1", "5", "9", "6", "8", "0", "4",
    "6", "1", "9", "1", "4", "4", "6", "7", "2", "9", "1", "8", "4", "0", "3",
    "0", "0", "5", "3", "0", "0", "5", "7", "5", "3", "0", "8", "4", "9", "0",
    "4", "8", "7", "6", "5", "3", "9", "1", "7", "1", "1", "3", "8", "6", "5",
    "9", "1", "6", "4", "6", "2", "3", "9", "5", "2", "4", "9", "1", "2", "6",
    "2", "3", "6", "5", "3", "8", "8", "1", "8", "7", "9", "6", "3", "6", "2",
    "3", "9", "3", "7", "3", "2", "8", "0", "4", "2", "3", "8", "9", "1", "0",
    "1", "8", "6", "7", "2", "3", "4", "8", "4", "9", "7", "6", "6", "8", "2",
    "3", "5", "0", "8", "9", "8", "6", "3", "3", "8", "8", "5", "8", "7", "9",
    "2", "5", "6", "2", "8", "3", "0", "2", "7", "5", "5", "9", "9", "5", "6",
    "5", "7", "5", "2", "4", "4", "5", "5", "5", "0", "7", "2", "5", "5", "1",
    "8", "9", "3", "1", "3", "6", "9", "0", "8", "3", "6", "2", "5", "4", "7",
    "7", "9", "1", "8", "6", "9", "4", "8", "6", "6", "7", "9", "9", "4", "9",
    "6", "8", "3", "2", "4", "0", "4", "9", "7", "0", "5", "8", "2", "1", "0",
    "2", "8", "5", "1", "3", "1", "8", "5", "4", "5", "1", "3", "9", "6", "2",
    "1", "3", "8", "3", "7", "7", "2", "2", "8", "2", "6", "1", "4", "5", "4",
    "3", "7", "6", "9", "3", "4", "1", "2", "5", "3", "2", "0", "9", "8", "5",
    "9", "1", "3", "2", "7", "6", "6", "7", "2", "3", "6", "3", "2", "8", "1",
    "2", "5">>

\* The exponent of a float text, applied in full. The float parser
\* (Python/dtoa.c) reads an exponent of more than nine significant digits as
\* MAX_ABS_EXP, 1100000000; a text FloatOk accepts has at most MaxDigits
\* digits, so that nothing it holds makes up for such an exponent.
MaxAbsExp == 1100000000

ExponentOf(x) ==
    LET d == StripZeros(Unsigned(x))
    IN SignOf(x) * (IF Len(d) > 9 THEN MaxAbsExp ELSE NatOf(d))

\* The double nearest to 0.sig * 10^point, sig being the significant digits
\* (none for zero).
FloatOfSignificand(sig, point, sign) ==
    IF sig = <<>> THEN [m |-> 0, e |-> 0]
    ELSE IF point > 309 \/ (point = 309 /\ FracLeq(InfFrom, sig)) THEN [inf |-> sign]
    ELSE IF point < -323 \/ (point = -323 /\ FracLeq(sig, ZeroUpTo)) THEN [m |-> 0, e |-> 0]
    ELSE [m |-> sign * NatOf(sig), e |-> Len(sig) - point]

\* The significant digits of a number written as digits with the decimal
\* point after the first intlen of them, times 10^exp.
FloatOfDigits(digits, intlen, exp, sign) ==
    FloatOfSignificand(RStripZeros(StripZeros(digits)),
                       intlen - (Len(digits) - Len(StripZeros(digits))) + exp,
                       sign)

FloatOfDecimal(mt, exp, sign) ==
    FloatOfDigits(IntPart(mt) \o FracPart(mt), Len(IntPart(mt)), exp, sign)

FloatOfBody(u, sign) ==
    IF IsInfText(u) THEN [inf |-> sign]
    ELSE IF IsNanText(u) THEN [nan |-> TRUE]
    ELSE FloatOfDecimal(Mantissa(u), ExponentOf(Exponent(u)), sign)

\* float(text) of a text FloatOk accepts. A finite value is the double
\* nearest to m * 10^(-e), kept as [m, e] with m not a multiple of ten (zero
\* is [m |-> 0, e |-> 0], its sign dropped); the others are [inf |-> sign]
\* and [nan |-> TRUE]. A finite m has to fit the integer width (below
\* 2^31): texts of up to nine significant digits.
FloatOf(t) == FloatOfBody(FloatBody(t), SignOf(Strip(t)))

IsFinite(f) == "m" \in DOMAIN f

\* temperature <= 0
FloatLeqZero(f) == IF "m" \in DOMAIN f THEN f.m <= 0
                   ELSE IF "inf" \in DOMAIN f THEN f.inf < 0
                   ELSE FALSE

Pad2(n) == IF n < 10 THEN "0" \o ToString(n) ELSE ToString(n)
Pad4(n) == IF n < 10 THEN "000" \o ToString(n)
           ELSE IF n < 100 THEN "00" \o ToString(n)
           ELSE IF n < 1000 THEN "0" \o ToString(n) ELSE ToString(n)
Pad6(n) == IF n < 10 THEN "00000" \o ToString(n)
           ELSE IF n < 100 THEN "0000" \o ToString(n)
           ELSE IF n < 1000 THEN "000" \o ToString(n)
           ELSE IF n < 10000 THEN "00" \o ToString(n)
           ELSE IF n < 100000 THEN "0" \o ToString(n) ELSE ToString(n)

\* The proleptic Gregorian date of a day number counted from 1970-01-01.
CivilFromDays(days) ==
    LET z   == days + 719468
        era == z \div 146097
        doe == z - era * 146097
        yoe == (doe - doe \div 1460 + doe \div 36524 - doe \div 146096) \div 365
        doy == doe - (365 * yoe + yoe \div 4 - yoe \div 100)
        mp  == (5 * doy + 2) \div 153
        d   == doy - (153 * mp + 2) \div 5 + 1
        mo  == IF mp < 10 THEN mp + 3 ELSE mp - 9
        y   == yoe + era * 400 + (IF mo <= 2 THEN 1 ELSE 0)
    IN [year |-> y, month |-> mo, day |-> d]

\* datetime.isoformat() of the local time ts
IsoFormat(ts) ==
    LET date  == CivilFromDays(ts.days)
        base  == Pad4(date.year) \o "-" \o Pad2(date.month) \o "-" \o Pad2(date.day)
                 \o "T" \o Pad2(ts.sod \div 3600) \o ":" \o Pad2((ts.sod % 3600) \div 60)
                 \o ":" \o Pad2(ts.sod % 60)
    IN IF ts.micros = 0 THEN base ELSE base \o "." \o Pad6(ts.micros)

\* lambda x: datetime.fromtimestamp(int(x) / 1000).isoformat()
TsConversionOk(t) == TsOutcome(t) = "ok"
TsConversion(t) == IsoFormat(TimeOf(t))

\* str.split(","): the pieces between the commas; "" splits to [""].
RECURSIVE Split(_)
Split(s) ==
    IF \E i \in 1..Len(s) : s[i] = ","
    THEN LET i == CHOOSE k \in 1..Len(s) : s[k] = "," /\ \A j \in 1..(k - 1) : s[j] # ","
         IN <<SubSeq(s, 1, i - 1)>> \o Split(SubSeq(s, i + 1, Len(s)))
    ELSE <<s>>

----------------------------------------------------------------------------
(* Configuration, lines 14-20 *)

\* WOOG_TEMPERATURE_URL, BACKEND_URL and BACKEND_PATH are unset in the
\* environment, so the defaults apply.
WOOG_TEMPERATURE_URL == "https://woog.iot.service.itrm.de/?accesstoken=LQ8MXn"
BACKEND_URL == "https://api.woog.life"
BACKEND_PATH(uuid) == "lake/" \o uuid \o "/temperature"
WOOG_UUID == env.LARGE_WOOG_UUID
API_KEY == env.API_KEY

----------------------------------------------------------------------------
(* Inputs *)

\* Texts a value element may hold: 18.5, the same between whitespace, 2e1,
\* 1e999 (beyond the largest double: float() gives inf), 0.0, -1, nan, abc
\* and the empty text.
ValueTexts == { <<"1", "8", ".", "5">>, <<" ", "1", "8", ".", "5", "\n">>,
                <<"2", "e", "1">>, <<"1", "e", "9", "9", "9">>,
                <<"0", ".", "0">>, <<"-", "1">>, <<"n", "a", "n">>,
                <<"a", "b", "c">>, <<>> }

\* Texts a ts element may hold: 1700000000000, abc, 1.5, 253402300800000
\* (the first millisecond of the year 10000) and 99999999999999999999999
\* (beyond time_t).
TsTexts == { <<"1", "7", "0", "0", "0", "0", "0", "0", "0", "0", "0", "0", "0">>,
             <<"a", "b", "c">>, <<"1", ".", "5">>,
             <<"2", "5", "3", "4", "0", "2", "3", "0", "0", "8", "0", "0", "0", "0", "0">>,
             <<"9", "9", "9", "9", "9", "9", "9", "9", "9", "9", "9", "9", "9", "9", "9",
               "9", "9", "9", "9", "9", "9", "9", "9">> }

Optional(S) == {None} \cup {Some(x) : x \in S}

\* A temperature element: what find("value") and find("ts") give inside it.
Tags == [value : Optional(ValueTexts), ts : Optional(TsTexts)]

\* A parsed document: what find("Water_Temperature") and
\* find("Air_Temperature") give.
Soups == [Water_Temperature : Optional(Tags), Air_Temperature : Optional(Tags)]

\* Chat ids that TELEGRAM_CHATLIST may list.
ChatIds == { <<"7">>, <<"8">> }

RECURSIVE JoinComma(_)
JoinComma(ids) == IF Len(ids) = 0 THEN <<>>
                  ELSE IF Len(ids) = 1 THEN ids[1]
                  ELSE ids[1] \o <<",">> \o JoinComma(Tail(ids))

Chatlists == UNION { { JoinComma(ids) : ids \in [1..n -> ChatIds] } : n \in 0..MaxRecipients }

Environments ==
    [ LARGE_WOOG_UUID   : {None, Some(""), Some("69c8438b")},
      API_KEY           : {None, Some("secret")},
      TOKEN             : {None, Some(""), Some("bot-token")},
      TELEGRAM_CHATLIST : Optional(Chatlists) ]

\* What becomes of a PUT: the backend answers with a status, the request
\* fails at connection level, or requests refuses to encode the body
\* (InvalidJSONError: requests from 2.26 on encodes JSON with allow_nan=False,
\* earlier releases send NaN; the release in use is not pinned).
PutOutcomes == { [kind |-> "response", status_code |-> 200],
                 [kind |-> "response", status_code |-> 500],
                 [kind |-> "ConnectionError"],
                 [kind |-> "InvalidJSONError"] }

\* What the sensor endpoint does with the GET: answer with a document, or
\* fail at network level.
GetOutcomes == { [kind |-> "response", soup |-> d] : d \in Soups }
               \cup { [kind |-> "ConnectionError"] }

----------------------------------------------------------------------------
(* Logging, lines 26-37 *)

LogLine(logger, level, msg) == [logger |-> logger, level |-> level, msg |-> msg]

----------------------------------------------------------------------------
(* Extraction, lines 70-138 *)

\* The two conversions passed to get_tag_text_from_xml: float (lines 89, 120)
\* and the timestamp lambda (lines 100, 131). ConversionException is the
\* exception conversion(text) raises, "" when it returns.
ExceptionOf(outcome) == IF outcome = "ok" THEN "" ELSE outcome
ConversionException(conversion, text) ==
    IF conversion = "float"
    THEN (IF FloatOk(text) THEN "" ELSE "ValueError")
    ELSE ExceptionOf(TsOutcome(text))
Convert(conversion, text) ==
    IF conversion = "float" THEN FloatOf(text) ELSE TsConversion(text)

\* `return conversion(tag.text)`: the value, or the exception raised.
Converted(exception, conversion, text) ==
    IF exception # "" THEN [raised |-> exception, value |-> None]
    ELSE [raised |-> "", value |-> Some(Convert(conversion, text))]

\* get_tag_text_from_xml(xml, name, conversion): None when the element is
\* absent; otherwise conversion(tag.text), or the exception it raises.
get_tag_text_from_xml(xml, name, conversion) ==
    IF IsNone(xml[name]) THEN [raised |-> "", value |-> None]
    ELSE Converted(ConversionException(conversion, xml[name].some), conversion, xml[name].some)

\* get_air_information and get_water_information: the reading returned (None
\* for no reading), the lines logged, and in raised the exception that leaves
\* the function ("" when it returns): only ValueError is caught.

\* get_air_information from the conversion of the ts element on.
get_air_information_iso_time(temperature, iso_time) ==
    LET logger == "get_air_information"
        debug == LogLine(logger, "DEBUG", "air_temperature_tag")
    IN
    IF iso_time.raised = "ValueError"
    THEN [raised |-> "", result |-> None,
          log |-> <<debug, LogLine(logger, "ERROR", "ts_tag is not valid")>>]
    ELSE IF iso_time.raised # ""
    THEN [raised |-> iso_time.raised, result |-> None, log |-> <<debug>>]
    ELSE [raised |-> "", result |-> Some(<<iso_time.value, temperature>>), log |-> <<debug>>]

\* get_air_information from the conversion of the value element on.
get_air_information_temperature(air_temperature_tag, temperature) ==
    LET logger == "get_air_information"
        debug == LogLine(logger, "DEBUG", "air_temperature_tag")
    IN
    IF temperature.raised = "ValueError"
    THEN [raised |-> "", result |-> None,
          log |-> <<debug, LogLine(logger, "ERROR", "value_tag was not of type float")>>]
    ELSE IF IsNone(temperature.value)
    THEN [raised |-> "", result |-> None,
          log |-> <<debug, LogLine(logger, "ERROR", "temperature was None in air_temperature value tag")>>]
    ELSE get_air_information_iso_time(temperature.value.some,
                                           get_tag_text_from_xml(air_temperature_tag, "ts", "timestamp"))

get_air_information(s) ==
    LET logger == "get_air_information"
        air_temperature_tag == s.Air_Temperature
        debug == LogLine(logger, "DEBUG", "air_temperature_tag")
    IN
    IF IsNone(air_temperature_tag)
    THEN [raised |-> "", result |-> None,
          log |-> <<debug, LogLine(logger, "ERROR", "air_Temperature not present")>>]
    ELSE get_air_information_temperature(air_temperature_tag.some,
                                              get_tag_text_from_xml(air_temperature_tag.some, "value", "float"))

\* get_water_information from the conversion of the ts element on.
get_water_information_iso_time(temperature, iso_time) ==
    LET logger == "get_water_information"
        debug == LogLine(logger, "DEBUG", "water_temperature_tag")
    IN
    IF iso_time.raised = "ValueError"
    THEN [raised |-> "", result |-> None,
          log |-> <<debug, LogLine(logger, "ERROR", "ts_tag is not valid")>>]
    ELSE IF iso_time.raised # ""
    THEN [raised |-> iso_time.raised, result |-> None, log |-> <<debug>>]
    ELSE [raised |-> "", result |-> Some(<<iso_time.value, temperature>>), log |-> <<debug>>]

\* get_water_information with `if not temperature` in place of
\* `if temperature is None` (line 125).
get_water_information_temperature_falsy(water_temperature_tag, temperature) ==
    LET logger == "get_water_information"
        debug == LogLine(logger, "DEBUG", "water_temperature_tag")
    IN
    IF temperature.raised = "ValueError"
    THEN [raised |-> "", result |-> None,
          log |-> <<debug, LogLine(logger, "ERROR", "value_tag was not of type float")>>]
    ELSE IF IsNone(temperature.value) \/ temperature.value.some = [m |-> 0, e |-> 0]
    THEN [raised |-> "", result |-> None,
          log |-> <<debug, LogLine(logger, "ERROR", "temperature was None in water_temperature value tag")>>]
    ELSE get_water_information_iso_time(temperature.value.some,
                                           get_tag_text_from_xml(water_temperature_tag, "ts", "timestamp"))

\* get_water_information logging the line of the missing element (line 116)
\* where the value is not a float (line 122).
get_water_information_temperature_one_message(water_temperature_tag, temperature) ==
    LET logger == "get_water_information"
        debug == LogLine(logger, "DEBUG", "water_temperature_tag")
    IN
    IF temperature.raised = "ValueError"
    THEN [raised |-> "", result |-> None,
          log |-> <<debug, LogLine(logger, "ERROR", "Water_Temperature not present")>>]
    ELSE IF IsNone(temperature.value)
    THEN [raised |-> "", result |-> None,
          log |-> <<debug, LogLine(logger, "ERROR", "temperature was None in water_temperature value tag")>>]
    ELSE get_water_information_iso_time(temperature.value.some,
                                           get_tag_text_from_xml(water_temperature_tag, "ts", "timestamp"))

\* get_water_information from the conversion of the value element on.
get_water_information_temperature(water_temperature_tag, temperature) ==
    LET logger == "get_water_information"
        debug == LogLine(logger, "DEBUG", "water_temperature_tag")
    IN
    IF temperature.raised = "ValueError"
    THEN [raised |-> "", result |-> None,
          log |-> <<debug, LogLine(logger, "ERROR", "value_tag was not of type float")>>]
    ELSE IF IsNone(temperature.value)
    THEN [raised |-> "", result |-> None,
          log |-> <<debug, LogLine(logger, "ERROR", "temperature was None in water_temperature value tag")>>]
    ELSE get_water_information_iso_time(temperature.value.some,
                                           get_tag_text_from_xml(water_temperature_tag, "ts", "timestamp"))

get_water_information(s) ==
    LET logger == "get_water_information"
        water_temperature_tag == s.Water_Temperature
        debug == LogLine(logger, "DEBUG", "water_temperature_tag")
    IN
    IF IsNone(water_temperature_tag)
    THEN [raised |-> "", result |-> None,
          log |-> <<debug, LogLine(logger, "ERROR", "Water_Temperature not present")>>]
    ELSE get_water_information_temperature(water_temperature_tag.some,
                                              get_tag_text_from_xml(water_temperature_tag.some, "value", "float"))

----
(* Forwarding, lines 141-162 *)

\* requests.Response: ok is False for a status_code from 400 to 599 (the
\* codes raise_for_status raises on) and True for any other;
\* bool(response) is response.ok.
Response(status_code) ==
    [status_code |-> status_code, ok |-> ~(400 <= status_code /\ status_code < 600)]

ManualApproval == "water_temperature is <= 0, please approve this manually."

\* send_data_to_backend unpacking air_information into the names the body is
\* built from (lines 146-147).
send_data_to_backend_air_body(water, air, outcome) ==
    LET logger == "send_data_to_backend"
        path == BACKEND_PATH(WOOG_UUID.some)
        url == BACKEND_URL \o "/" \o path
        water_timestamp == air[1]
        water_temperature == air[2]
        headers == [Authorization |-> "Bearer " \o API_KEY.some]
        data == [temperature |-> water_temperature, time |-> water_timestamp]
        request == [method |-> "PUT", url |-> url, json |-> data, headers |-> headers,
                    outcome |-> outcome]
        debug == LogLine(logger, "DEBUG", "Send data to url")
    IN
    IF FloatLeqZero(water_temperature)
    THEN [raised |-> "", response |-> None, url |-> ManualApproval,
          puts |-> <<>>, log |-> <<>>]
    ELSE IF outcome.kind = "InvalidJSONError"
    THEN [raised |-> "InvalidJSONError", response |-> None, url |-> url, puts |-> <<>>,
          log |-> <<debug>>]
    ELSE IF outcome.kind = "ConnectionError"
    THEN [raised |-> "", response |-> None, url |-> url, puts |-> <<request>>,
          log |-> <<debug, LogLine(logger, "ERROR", "Error while connecting to backend")>>]
    ELSE [raised |-> "", response |-> Some(Response(outcome.status_code)), url |-> url,
          puts |-> <<request>>, log |-> <<debug, LogLine(logger, "DEBUG", "success | content")>>]

\* send_data_to_backend without the except clause of lines 158-160.
send_data_to_backend_uncaught(water, air, outcome) ==
    LET logger == "send_data_to_backend"
        path == BACKEND_PATH(WOOG_UUID.some)
        url == BACKEND_URL \o "/" \o path
        water_timestamp == water[1]
        water_temperature == water[2]
        headers == [Authorization |-> "Bearer " \o API_KEY.some]
        data == [temperature |-> water_temperature, time |-> water_timestamp]
        request == [method |-> "PUT", url |-> url, json |-> data, headers |-> headers,
                    outcome |-> outcome]
        debug == LogLine(logger, "DEBUG", "Send data to url")
    IN
    IF FloatLeqZero(water_temperature)
    THEN [raised |-> "", response |-> None, url |-> ManualApproval,
          puts |-> <<>>, log |-> <<>>]
    ELSE IF outcome.kind = "InvalidJSONError"
    THEN [raised |-> "InvalidJSONError", response |-> None, url |-> url, puts |-> <<>>,
          log |-> <<debug>>]
    ELSE IF outcome.kind = "ConnectionError"
    THEN [raised |-> "ConnectionError", response |-> None, url |-> url, puts |-> <<request>>,
          log |-> <<debug>>]
    ELSE [raised |-> "", response |-> Some(Response(outcome.status_code)), url |-> url,
          puts |-> <<request>>, log |-> <<debug, LogLine(logger, "DEBUG", "success | content")>>]

\* send_data_to_backend(water_information, air_information) when the backend
\* treats a PUT as `outcome` says: the (response, url) pair returned, in
\* raised the exception that leaves the function ("" when it returns), the
\* PUT requests issued and the lines logged. InvalidJSONError is what
\* requests.put raises, before anything is sent, for a body it refuses to
\* encode.
send_data_to_backend(water, air, outcome) ==
    LET logger == "send_data_to_backend"
        path == BACKEND_PATH(WOOG_UUID.some)
        url == BACKEND_URL \o "/" \o path
        water_timestamp == water[1]
        water_temperature == water[2]
        headers == [Authorization |-> "Bearer " \o API_KEY.some]
        data == [temperature |-> water_temperature, time |-> water_timestamp]
        request == [method |-> "PUT", url |-> url, json |-> data, headers |-> headers,
                    outcome |-> outcome]
        debug == LogLine(logger, "DEBUG", "Send data to url")
    IN
    IF FloatLeqZero(water_temperature)
    THEN [raised |-> "", response |-> None, url |-> ManualApproval,
          puts |-> <<>>, log |-> <<>>]
    ELSE IF outcome.kind = "InvalidJSONError"
    THEN [raised |-> "InvalidJSONError", response |-> None, url |-> url, puts |-> <<>>,
          log |-> <<debug>>]
    ELSE IF outcome.kind = "ConnectionError"
    THEN [raised |-> "", response |-> None, url |-> url, puts |-> <<request>>,
          log |-> <<debug, LogLine(logger, "ERROR", "Error while connecting to backend")>>]
    ELSE [raised |-> "", response |-> Some(Response(outcome.status_code)), url |-> url,
          puts |-> <<request>>, log |-> <<debug, LogLine(logger, "DEBUG", "success | content")>>]

----------------------------------------------------------------------------
(* Alerting, lines 40-50 *)

\* send_telegram_alert up to its loop: the users the loop will visit and the
\* lines logged.
send_telegram_alert(message, token, chatlist) ==
    LET logger == "send_telegram_alert" IN
    IF ~TruthyStr(token)
    THEN [users |-> <<>>,
          log |-> <<LogLine(logger, "ERROR", "TOKEN not defined in environment, skip sending telegram message")>>]
    ELSE [users |-> chatlist,
          log |-> IF chatlist = <<>>
                  THEN <<LogLine(logger, "ERROR", "chatlist is empty (env var: TELEGRAM_CHATLIST)")>>
                  ELSE <<>>]

\* What Bot(token).send_message does with a call: it delivers the message
\* and returns, or raises an exception of the telegram.error.TelegramError
\* family.
SendOutcomes == {"delivered", "TelegramError"}

\* The send_message call of one loop iteration.
send_message(token, user, message, outcome) ==
    [token |-> token, chat_id |-> user, text |-> <<"Error while executing: ", message>>,
     outcome |-> outcome]

----------------------------------------------------------------------------
(* The run *)

Init ==
    /\ env \in Environments
    /\ pc = "start"
    /\ soup = None
    /\ water_information = None
    /\ air_information = None
    /\ forwarded = None
    /\ forward_result = None
    /\ puts = <<>>
    /\ main_result = None
    /\ alert = None
    /\ sent = <<>>
    /\ log = <<>>
    /\ traceback = None
    /\ exit_code = None

\* An uncaught exception: the interpreter prints the traceback and exits
\* with code 1.
Crash(exception, function) ==
    /\ traceback' = Some([exception |-> exception, function |-> function])
    /\ exit_code' = Some(1)
    /\ pc' = "done"

\* Lines 198-205: the credential checks before main() is called.
Startup ==
    /\ pc = "start"
    /\ IF ~TruthyStr(WOOG_UUID)
       THEN /\ log' = Append(log, LogLine("__main__", "ERROR", "LARGE_WOOG_UUID not defined in environment"))
            /\ pc' = "done"
            /\ exit_code' = Some(0)
       ELSE IF ~TruthyStr(API_KEY)
       THEN /\ log' = Append(log, LogLine("__main__", "ERROR", "API_KEY not defined in environment"))
            /\ pc' = "done"
            /\ exit_code' = Some(0)
       ELSE /\ pc' = "get_website"
            /\ UNCHANGED <<log, exit_code>>
    /\ UNCHANGED <<env, soup, water_information, air_information, forwarded,
                   forward_result, puts, main_result, alert, sent, traceback>>

\* Lines 167-173: get_website() and parse_website_xml(). requests.get raises
\* on a network failure and nothing catches it; get_website never returns
\* success = False.
GetWebsite ==
    /\ pc = "get_website"
    /\ \E outcome \in GetOutcomes :
         IF outcome.kind = "ConnectionError"
         THEN /\ log' = Append(log, LogLine("get_website", "DEBUG", "Requesting url"))
              /\ Crash("ConnectionError", "get_website")
              /\ UNCHANGED soup
         ELSE /\ log' = log \o <<LogLine("get_website", "DEBUG", "Requesting url"),
                                  LogLine("get_website", "DEBUG", "content")>>
              /\ soup' = Some(outcome.soup)
              /\ pc' = "get_water_information"
              /\ UNCHANGED <<traceback, exit_code>>
    /\ UNCHANGED <<env, water_information, air_information, forwarded,
                   forward_result, puts, main_result, alert, sent>>

\* Line 175: an exception that leaves get_water_information leaves main and
\* the script.
GetWaterInformation ==
    /\ pc = "get_water_information"
    /\ \E r \in {get_water_information(soup.some)} :
         /\ log' = log \o r.log
         /\ IF r.raised # ""
            THEN /\ Crash(r.raised, "get_water_information")
                 /\ UNCHANGED water_information
            ELSE /\ water_information' = r.result
                 /\ pc' = "get_air_information"
                 /\ UNCHANGED <<traceback, exit_code>>
    /\ UNCHANGED <<env, soup, air_information, forwarded, forward_result, puts,
                   main_result, alert, sent>>

\* Line 176: likewise for get_air_information.
GetAirInformation ==
    /\ pc = "get_air_information"
    /\ \E r \in {get_air_information(soup.some)} :
         /\ log' = log \o r.log
         /\ IF r.raised # ""
            THEN /\ Crash(r.raised, "get_air_information")
                 /\ UNCHANGED air_information
            ELSE /\ air_information' = r.result
                 /\ pc' = "check_information"
                 /\ UNCHANGED <<traceback, exit_code>>
    /\ UNCHANGED <<env, soup, water_information, forwarded, forward_result, puts,
                   main_result, alert, sent>>

\* Lines 178-186: main returns a failure when a reading is falsy.
check_information(water, air, s) ==
    IF ~TruthyTuple(water)
    THEN Some([text |-> "Couldn't retrieve water information from", soup |-> s])
    ELSE IF ~TruthyTuple(air)
    THEN Some([text |-> "Couldn't retrieve air information from", soup |-> s])
    ELSE None

CheckInformation ==
    /\ pc = "check_information"
    /\ LET failure == check_information(water_information, air_information, soup.some) IN
         IF ~IsNone(failure)
         THEN /\ log' = Append(log, LogLine("main", "ERROR", failure.some))
              /\ main_result' = Some(<<FALSE, failure.some>>)
              /\ pc' = "report"
         ELSE /\ pc' = "send_data_to_backend"
              /\ UNCHANGED <<log, main_result>>
    /\ UNCHANGED <<env, soup, water_information, air_information, forwarded,
                   forward_result, puts, alert, sent, traceback, exit_code>>

\* Line 188: the call of send_data_to_backend and the PUT it makes.
SendDataToBackend ==
    /\ pc = "send_data_to_backend"
    /\ forwarded' = Some(<<water_information.some, air_information.some>>)
    /\ \E outcome \in PutOutcomes :
         \E r \in {send_data_to_backend(water_information.some, air_information.some, outcome)} :
           /\ outcome.kind = "InvalidJSONError" => ~IsFinite(water_information.some[2])
           /\ puts' = puts \o r.puts
           /\ log' = log \o r.log
           /\ IF r.raised # ""
              THEN /\ Crash(r.raised, "send_data_to_backend")
                   /\ UNCHANGED forward_result
              ELSE /\ forward_result' = Some([response |-> r.response, url |-> r.url])
                   /\ pc' = "check_response"
                   /\ UNCHANGED <<traceback, exit_code>>
    /\ UNCHANGED <<env, soup, water_information, air_information, main_result,
                   alert, sent>>

\* Lines 190-195: main's verdict on what send_data_to_backend returned.
check_response(result, water) ==
    IF IsNone(result.response) \/ ~result.response.some.ok
    THEN <<FALSE, [text |-> "Failed to put data to backend", water_information |-> water,
                   url |-> result.url]>>
    ELSE <<TRUE, [text |-> ""]>>

CheckResponse ==
    /\ pc = "check_response"
    /\ LET r == check_response(forward_result.some, water_information.some) IN
         /\ main_result' = Some(r)
         /\ log' = IF r[1] THEN log ELSE Append(log, LogLine("main", "ERROR", r[2]))
    /\ pc' = "report"
    /\ UNCHANGED <<env, soup, water_information, air_information, forwarded,
                   forward_result, puts, alert, sent, traceback, exit_code>>

\* Lines 205-210, and send_telegram_alert up to its loop: after a success the
\* script ends; after a failure it logs the message and calls
\* send_telegram_alert with TOKEN and TELEGRAM_CHATLIST split at the commas.
Report ==
    /\ pc = "report"
    /\ LET success == main_result.some[1]
           message == main_result.some[2]
           token == env.TOKEN
           chatlist == IF TruthyChars(env.TELEGRAM_CHATLIST) THEN env.TELEGRAM_CHATLIST.some ELSE <<>>
           call == send_telegram_alert(message, token, Split(chatlist))
       IN IF success
          THEN /\ pc' = "done"
               /\ exit_code' = Some(0)
               /\ UNCHANGED <<log, alert>>
          ELSE /\ log' = Append(log, LogLine("__main__", "ERROR", <<"Something went wrong", message>>))
                         \o call.log
               /\ alert' = Some([message |-> message, token |-> token,
                                 chatlist |-> Split(chatlist), users |-> call.users])
               /\ pc' = "send_telegram_alert"
               /\ UNCHANGED exit_code
    /\ UNCHANGED <<env, soup, water_information, air_information, forwarded,
                   forward_result, puts, main_result, sent, traceback>>

\* Lines 49-50: one iteration of the loop over the chat list. Nothing
\* catches what send_message raises: the exception leaves the loop,
\* send_telegram_alert and the script, before sys.exit(1) and with the rest
\* of the chat list unvisited.
SendMessage ==
    /\ pc = "send_telegram_alert"
    /\ alert.some.users # <<>>
    /\ \E outcome \in SendOutcomes :
         /\ sent' = Append(sent, send_message(alert.some.token.some, Head(alert.some.users),
                                              alert.some.message, outcome))
         /\ IF outcome = "delivered"
            THEN /\ alert' = Some([alert.some EXCEPT !.users = Tail(@)])
                 /\ UNCHANGED <<pc, traceback, exit_code>>
            ELSE /\ Crash(outcome, "send_telegram_alert")
                 /\ UNCHANGED alert
    /\ UNCHANGED <<env, soup, water_information, air_information, forwarded,
                   forward_result, puts, main_result, log>>

\* Line 211: sys.exit(1) once send_telegram_alert has returned.
SysExit ==
    /\ pc = "send_telegram_alert"
    /\ alert.some.users = <<>>
    /\ pc' = "done"
    /\ exit_code' = Some(1)
    /\ UNCHANGED <<env, soup, water_information, air_information, forwarded,
                   forward_result, puts, main_result, alert, sent, log, traceback>>

Next ==
    \/ Startup
    \/ GetWebsite
    \/ GetWaterInformation
    \/ GetAirInformation
    \/ CheckInformation
    \/ SendDataToBackend
    \/ CheckResponse
    \/ Report
    \/ SendMessage
    \/ SysExit

Spec == Init /\ [][Next]_vars

----------------------------------------------------------------------------
(* Vocabulary of the properties *)

Done == pc = "done"
Fetched == ~IsNone(soup)
CrashedIn(function) == ~IsNone(traceback) /\ traceback.some.function = function
WaterExtracted == Fetched /\ pc # "get_water_information"
                  /\ ~CrashedIn("get_water_information")
AirExtracted == WaterExtracted /\ pc # "get_air_information"
                /\ ~CrashedIn("get_air_information")
MainCalled == TruthyStr(env.LARGE_WOOG_UUID) /\ TruthyStr(env.API_KEY)
MainReturned == ~IsNone(main_result)
MainFailed == MainReturned /\ ~main_result.some[1]
MainSucceeded == MainReturned /\ main_result.some[1]
ForwarderCalled == ~IsNone(forwarded)
ForwarderReturned == ~IsNone(forward_result)
ResponseOk == ForwarderReturned /\ ~IsNone(forward_result.some.response)
              /\ forward_result.some.response.some.ok
AlerterInvoked == ~IsNone(alert)

\* The texts of the input sets by what they denote, written out rather than
\* computed with the operators under test.
Text_18_5 == <<"1", "8", ".", "5">>
Text_18_5_padded == <<" ", "1", "8", ".", "5", "\n">>
Text_2e1 == <<"2", "e", "1">>
Text_1e999 == <<"1", "e", "9", "9", "9">>
Text_nan == <<"n", "a", "n">>
Text_abc == <<"a", "b", "c">>
Text_empty == <<>>
Text_1_5 == <<"1", ".", "5">>
Text_0_0 == <<"0", ".", "0">>
Text_minus_1 == <<"-", "1">>
Text_1700000000000 == <<"1", "7", "0", "0", "0", "0", "0", "0", "0", "0", "0", "0", "0">>
Text_253402300800000 == <<"2", "5", "3", "4", "0", "2", "3", "0", "0", "8", "0", "0", "0", "0", "0">>
Text_99999999999999999999999 ==
    <<"9", "9", "9", "9", "9", "9", "9", "9", "9", "9", "9", "9", "9", "9", "9",
      "9", "9", "9", "9", "9", "9", "9", "9">>
\* Numeric values are the texts that denote a number; nan converts to a float
\* that is no number and belongs to neither class. 1e999 denotes a number
\* above zero that is beyond the doubles: float() makes it inf; the other
\* numeric values are finite. Of the integer ts texts one is within the range
\* of datetime; abc and 1.5 are the non-numeric ones.
NumericValueTexts == {Text_18_5, Text_18_5_padded, Text_2e1, Text_1e999, Text_0_0,
                      Text_minus_1}
PositiveValueTexts == {Text_18_5, Text_18_5_padded, Text_2e1, Text_1e999}
FiniteValueTexts == NumericValueTexts \ {Text_1e999}
NonNumericValueTexts == {Text_abc, Text_empty}
FloatValueTexts == NumericValueTexts \cup {Text_nan}
IntegerTsTexts == {Text_1700000000000, Text_253402300800000, Text_99999999999999999999999}
InRangeTsTexts == {Text_1700000000000}
NonNumericTsTexts == {Text_abc, Text_1_5}
Float_18_5 == [m |-> 185, e |-> 1]
Float_20 == [m |-> 2, e |-> -1]
Float_inf == [inf |-> 1]
Iso_1700000000000 == "2023-11-14T22:13:20"

\* Classes of temperature elements (tag is what find() gave for the outer element).
OuterMissing(tag) == IsNone(tag)
ValueAbsent(tag) == ~IsNone(tag) /\ IsNone(tag.some.value)
ValueNonNumeric(tag) == /\ ~IsNone(tag)
                        /\ ~IsNone(tag.some.value)
                        /\ tag.some.value.some \in NonNumericValueTexts
ValueNumeric(tag) == /\ ~IsNone(tag)
                     /\ ~IsNone(tag.some.value)
                     /\ tag.some.value.some \in NumericValueTexts
ValuePositive(tag) == /\ ~IsNone(tag)
                      /\ ~IsNone(tag.some.value)
                      /\ tag.some.value.some \in PositiveValueTexts
ValueFinite(tag) == /\ ~IsNone(tag)
                    /\ ~IsNone(tag.some.value)
                    /\ tag.some.value.some \in FiniteValueTexts
TsAbsent(tag) == ~IsNone(tag) /\ IsNone(tag.some.ts)
TsNonNumeric(tag) == /\ ~IsNone(tag)
                     /\ ~IsNone(tag.some.ts)
                     /\ tag.some.ts.some \in NonNumericTsTexts
TsInteger(tag) == /\ ~IsNone(tag)
                  /\ ~IsNone(tag.some.ts)
                  /\ tag.some.ts.some \in IntegerTsTexts
TsInRange(tag) == /\ ~IsNone(tag)
                  /\ ~IsNone(tag.some.ts)
                  /\ tag.some.ts.some \in InRangeTsTexts
ValidReading(tag) == ValueNumeric(tag) /\ TsInRange(tag)
ValidWater(tag) == ValuePositive(tag) /\ TsInteger(tag)

Water == soup.some.Water_Temperature
Air == soup.some.Air_Temperature

HasLine(logger, msg) == \E i \in 1..Len(log) : log[i].logger = logger /\ log[i].msg = msg

----------------------------------------------------------------------------
(* C1 *)

\* C1: every Reading handed to send_data_to_backend has its timestamp and its
\* temperature present, and a document whose water or air ts element is absent
\* or non-numeric yields no Reading for that element, a failed main and no PUT.
C1_ForwardedReadingsComplete ==
    /\ ForwarderCalled =>
         \A i \in 1..2 : ~IsNone(forwarded.some[i][1]) /\ ~IsNone(forwarded.some[i][2])
    /\ (WaterExtracted /\ (TsAbsent(Water) \/ TsNonNumeric(Water))) =>
         IsNone(water_information) /\ puts = <<>>
    /\ (AirExtracted /\ (TsAbsent(Air) \/ TsNonNumeric(Air))) =>
         IsNone(air_information) /\ puts = <<>>
    /\ (Done /\ Fetched /\ (TsAbsent(Water) \/ TsNonNumeric(Water)
                             \/ TsAbsent(Air) \/ TsNonNumeric(Air))) =>
         MainFailed /\ exit_code = Some(1)

----------------------------------------------------------------------------
(* C2 *)

PipelineSucceeded == Len(puts) = 1 /\ ResponseOk

\* C2: the exit code is 0 exactly when a PUT was issued and the backend
\* answered ok, and 1 in every other run, a missing LARGE_WOOG_UUID or API_KEY
\* included.
C2_ExitCodeTellsSuccess ==
    Done => /\ exit_code \in {Some(0), Some(1)}
            /\ exit_code = Some(0) <=> PipelineSucceeded

----------------------------------------------------------------------------
(* C3 *)

\* The body of the PUT for the water reading of this run's document.
ExpectedTemperature ==
    IF Water.some.value.some = Text_2e1 THEN Float_20
    ELSE IF Water.some.value.some = Text_1e999 THEN Float_inf
    ELSE Float_18_5

ExpectedBody == [temperature |-> ExpectedTemperature, time |-> Some(Iso_1700000000000)]

WaterForwardedOnce ==
    /\ Len(puts) = 1
    /\ puts[1].method = "PUT"
    /\ puts[1].json = ExpectedBody
    /\ (puts[1].outcome = [kind |-> "response", status_code |-> 200] =>
          exit_code = Some(0) /\ ~AlerterInvoked /\ sent = <<>>)

\* get_air_information yields a reading: the element is there, float()
\* accepts its value and its ts is an integer in range or absent.
AirYieldsReading(tag) == /\ ~IsNone(tag)
                         /\ ~IsNone(tag.some.value)
                         /\ tag.some.value.some \in FloatValueTexts
                         /\ (TsInRange(tag) \/ TsAbsent(tag))

\* requests.put refused to encode the body: no PUT was issued and
\* InvalidJSONError left send_data_to_backend and the script.
BodyRefused ==
    /\ puts = <<>>
    /\ traceback = Some([exception |-> "InvalidJSONError", function |-> "send_data_to_backend"])
    /\ IsNone(main_result) /\ ~AlerterInvoked
    /\ exit_code = Some(1)

\* The run the amendment of C3 sets apart: a water value above zero that
\* float() makes inf, everything else valid, and requests refusing the body.
C3_OverflowingValueRefused ==
    /\ Done /\ Fetched /\ ValidWater(Water) /\ ValidReading(Air)
    /\ Water.some.value.some = Text_1e999
    /\ TsInRange(Water)
    /\ BodyRefused

----------------------------------------------------------------------------
(* C4 *)

Unvalidated(tag) == OuterMissing(tag) \/ ValueAbsent(tag) \/ ValueNonNumeric(tag)

\* C4: when the outer element of water or air is missing, or its value is
\* absent or non-numeric, send_data_to_backend is never called, no PUT is
\* issued and main returns a failure, whatever the other reading is.
C4_NoForwardUnlessBothValidate ==
    (Fetched /\ (Unvalidated(Water) \/ Unvalidated(Air))) =>
        /\ ~ForwarderCalled
        /\ puts = <<>>
        /\ ~MainSucceeded
        /\ Done => MainFailed /\ exit_code = Some(1)

\* The part of C4 that holds in every run: with a reading that has not
\* validated there is no call of send_data_to_backend, no PUT and no success,
\* and the process ends with exit code 1.
NoForwardUnlessBothValidate ==
    (Fetched /\ (Unvalidated(Water) \/ Unvalidated(Air))) =>
        /\ ~ForwarderCalled
        /\ puts = <<>>
        /\ ~MainSucceeded
        /\ Done => /\ exit_code = Some(1)
                   /\ \/ MainFailed
                      \/ CrashedIn("get_water_information")
                      \/ CrashedIn("get_air_information")

----------------------------------------------------------------------------
(* C5 *)

NonPositiveWater(tag) == ValueNumeric(tag) /\ ~ValuePositive(tag) /\ TsInRange(tag)

ExpectedWaterReading ==
    <<Some(Iso_1700000000000),
      IF Water.some.value.some = Text_0_0 THEN [m |-> 0, e |-> 0] ELSE [m |-> -1, e |-> 0]>>

\* C5: with a water value <= 0 (0.0 included), a valid ts and a valid air
\* reading, the water Reading is constructed and handed to
\* send_data_to_backend, which issues no PUT and returns no response with the
\* manual-approval message, and the run fails.
C5_NonPositiveWaterIsRefused ==
    (AirExtracted /\ NonPositiveWater(Water) /\ ValidReading(Air)) =>
        /\ water_information = Some(ExpectedWaterReading)
        /\ puts = <<>>
        /\ pc \notin {"check_information", "send_data_to_backend"} =>
             /\ ForwarderCalled
             /\ forwarded.some[1] = ExpectedWaterReading
             /\ forward_result = Some([response |-> None, url |-> ManualApproval])
        /\ ~MainSucceeded
        /\ Done => MainFailed /\ exit_code = Some(1)

C5_Witness ==
    /\ Done /\ Fetched
    /\ NonPositiveWater(Water) /\ Water.some.value.some = Text_0_0 /\ ValidReading(Air)
    /\ forward_result = Some([response |-> None, url |-> ManualApproval])
    /\ exit_code = Some(1)

----------------------------------------------------------------------------
(* C6 *)

PutFailedToConnect == puts # <<>> /\ puts[1].outcome.kind = "ConnectionError"

\* C6: when the PUT fails at connection level, send_data_to_backend returns
\* (no response, the attempted URL) and no exception leaves it; main then
\* returns a failure whose message names that URL and the run exits with 1.
C6_ConnectionFailureIsReturned ==
    PutFailedToConnect =>
        /\ ~CrashedIn("send_data_to_backend")
        /\ IsNone(traceback) \/ CrashedIn("send_telegram_alert")
        /\ forward_result = Some([response |-> None, url |-> puts[1].url])
        /\ puts[1].url = "https://api.woog.life/lake/69c8438b/temperature"
        /\ MainReturned => MainFailed /\ main_result.some[2].url = puts[1].url
        /\ pc # "check_response" => MainReturned
        /\ Done => exit_code = Some(1)

C6_Witness ==
    /\ Done /\ PutFailedToConnect
    /\ MainFailed /\ main_result.some[2].url = puts[1].url
    /\ exit_code = Some(1)

----------------------------------------------------------------------------
(* C7 *)

\* C7: whenever main was called and the pipeline did not succeed, the failure
\* message is logged and send_telegram_alert is invoked with it before the
\* process ends with a nonzero exit code, a network failure in get_website
\* included; send_telegram_alert is never invoked in a run that succeeds.
C7_EveryHaltReachesTheAlerter ==
    /\ (Done /\ MainCalled /\ ~MainSucceeded) =>
         /\ MainFailed
         /\ AlerterInvoked /\ alert.some.message = main_result.some[2]
         /\ HasLine("main", main_result.some[2])
         /\ exit_code = Some(1)
    /\ MainSucceeded => ~AlerterInvoked

----------------------------------------------------------------------------
(* C8 *)

PutAnsweredNotOk == /\ puts # <<>>
                    /\ puts[1].outcome = [kind |-> "response", status_code |-> 500]

Chatlist == Split(env.TELEGRAM_CHATLIST.some)

\* The recipients configured: the distinct entries of the chat list.
Recipients == { Chatlist[i] : i \in 1..Len(Chatlist) }

ChatIdsSent == [i \in 1..Len(sent) |-> sent[i].chat_id]

\* The number of messages delivered to a recipient.
MessagesTo(r) ==
    Cardinality({ i \in 1..Len(sent) : sent[i].chat_id = r /\ sent[i].outcome = "delivered" })

IsPrefix(a, b) == Len(a) <= Len(b) /\ SubSeq(b, 1, Len(a)) = a

\* C8: when the backend answers the PUT with a non-ok status and TOKEN and
\* TELEGRAM_CHATLIST are set, the run delivers exactly one message to each
\* recipient of the chat list (in the order of the list, none skipped, none
\* duplicated), each carrying main's message and each after the PUT was
\* answered, and then exits with 1.
C8_OneMessagePerRecipient ==
    (PutAnsweredNotOk /\ TruthyStr(env.TOKEN) /\ TruthyChars(env.TELEGRAM_CHATLIST)) =>
        /\ IsPrefix(ChatIdsSent, Chatlist)
        /\ \A r \in Recipients : MessagesTo(r) <= 1
        /\ sent # <<>> => ForwarderReturned /\ MainFailed
        /\ \A i \in 1..Len(sent) :
              sent[i].text = <<"Error while executing: ", main_result.some[2]>>
        /\ Done => /\ \A r \in Recipients : MessagesTo(r) = 1
                   /\ exit_code = Some(1)

\* The part of C8 that holds in every run: send_message is called for the
\* entries of the chat list in their order, an entry that occurs twice
\* included twice, each call after the PUT was answered and each with main's
\* message; a call is made only after the calls before it have delivered;
\* the process ends with exit code 1, after one call per entry unless a call
\* raised, and then with the entries after it unvisited.
OneCallPerEntryUntilARaise ==
    (PutAnsweredNotOk /\ TruthyStr(env.TOKEN) /\ TruthyChars(env.TELEGRAM_CHATLIST)) =>
        /\ IsPrefix(ChatIdsSent, Chatlist)
        /\ \A i \in 1..(Len(sent) - 1) : sent[i].outcome = "delivered"
        /\ sent # <<>> => ForwarderReturned /\ MainFailed
        /\ \A i \in 1..Len(sent) :
              sent[i].text = <<"Error while executing: ", main_result.some[2]>>
        /\ Done => /\ exit_code = Some(1)
                   /\ sent # <<>>
                   /\ IF sent[Len(sent)].outcome = "delivered"
                      THEN ChatIdsSent = Chatlist /\ IsNone(traceback)
                      ELSE CrashedIn("send_telegram_alert")

----------------------------------------------------------------------------
(* C9 *)

\* C9: on a failed run with TELEGRAM_CHATLIST unset or empty,
\* send_telegram_alert logs a configuration error, makes no send_message call
\* and does not fail, and the process exits with 1; with TOKEN absent no
\* send_message call is made either.
C9_EmptyChatlistSendsNothing ==
    /\ (AlerterInvoked /\ ~TruthyChars(env.TELEGRAM_CHATLIST)) =>
         /\ sent = <<>>
         /\ \E i \in 1..Len(log) : log[i].logger = "send_telegram_alert" /\ log[i].level = "ERROR"
         /\ IsNone(traceback)
         /\ Done => exit_code = Some(1)
    /\ ~TruthyStr(env.TOKEN) => sent = <<>>

----------------------------------------------------------------------------
(* C10 *)

\* The document of this run with a Water_Temperature element whose value is
\* not numeric in place of the missing one.
NonNumericVariants ==
    { [soup.some EXCEPT !.Water_Temperature = Some(t)] :
        t \in { x \in Tags : ValueNonNumeric(Some(x)) } }

\* C10 as stated: the result get_water_information hands to main for a
\* missing outer element differs from the one it hands over for a non-numeric
\* value, and so does the halt message of main (the text of the message; the
\* document embedded in it is not a classification).
C10_DistinctFailureResults ==
    (WaterExtracted /\ OuterMissing(Water)) =>
        \A d \in NonNumericVariants :
            /\ water_information # get_water_information(d).result
            /\ MainReturned =>
                 main_result.some[2].text
                   # check_information(get_water_information(d).result, air_information, d).some.text

WaterHalt == "Couldn't retrieve water information from"

\* C10, amended: a missing outer element and a non-numeric value are told
\* apart only by the error line get_water_information / get_air_information
\* logs ("not present" against "value_tag was not of type float"); both hand
\* None to main, and main's halt message for the water reading is the same
\* in both cases.
C10_DistinctLogLinesOnly ==
    /\ (WaterExtracted /\ OuterMissing(Water)) =>
         /\ IsNone(water_information)
         /\ HasLine("get_water_information", "Water_Temperature not present")
         /\ ~HasLine("get_water_information", "value_tag was not of type float")
         /\ MainReturned => main_result.some = <<FALSE, [text |-> WaterHalt, soup |-> soup.some]>>
    /\ (WaterExtracted /\ ValueNonNumeric(Water)) =>
         /\ IsNone(water_information)
         /\ HasLine("get_water_information", "value_tag was not of type float")
         /\ ~HasLine("get_water_information", "Water_Temperature not present")
         /\ MainReturned => main_result.some = <<FALSE, [text |-> WaterHalt, soup |-> soup.some]>>
    /\ (AirExtracted /\ OuterMissing(Air)) =>
         /\ IsNone(air_information)
         /\ HasLine("get_air_information", "air_Temperature not present")
         /\ ~HasLine("get_air_information", "value_tag was not of type float")
    /\ (AirExtracted /\ ValueNonNumeric(Air)) =>
         /\ IsNone(air_information)
         /\ HasLine("get_air_information", "value_tag was not of type float")
         /\ ~HasLine("get_air_information", "air_Temperature not present")

C10_Witness ==
    /\ Done /\ Fetched
    /\ ValueNonNumeric(Water) /\ Water.some.value.some = Text_abc
    /\ IsNone(water_information)
    /\ HasLine("get_water_information", "value_tag was not of type float")
    /\ MainReturned /\ main_result.some[2].text = WaterHalt

====
